---- MODULE Spec2Model ----
(***************************************************************************)
(* A model of the layer modules of src/modules.py (LinkSeg):               *)
(*   - Res2DMaxPoolModule / ResFrontEnd : tensor shapes, BatchNorm2d state *)
(*   - Attention / Transformer          : masking, softmax weights, shapes *)
(*   - ConvNetSSM                       : rank canonicalisation, 7 blocks  *)
(*   - GCN_DENSE                        : dense graph convolution, shapes  *)
(*                                                                         *)
(* Tensors are modelled by their shape (a sequence of dimensions) and,     *)
(* where a claim is about values, by fixed-point numbers: the integer v    *)
(* stands for the real v / Scale.                                          *)
(***************************************************************************)
EXTENDS Integers, Sequences, FiniteSets, TLC

VARIABLES
    fe,        \* the ResFrontEnd instance: hyper-parameters, mode, BatchNorm buffers
    fe_pc,     \* position inside ResFrontEnd.forward
    fe_in,     \* the input of the running/last forward call
    fe_x,      \* shape of the tensor `out` at the current position
    fe_err     \* exception raised by the running/last forward call, or "none"

VARIABLES
    tr,        \* the Transformer instance: hyper-parameters and its layers
    at_pc,     \* position inside Transformer.forward
    at_layer,  \* index of the layer being applied
    at_in,     \* the input of the running/last Transformer.forward call
    at_x,      \* shape of x at the current position
    at_err,    \* exception raised by the running/last call, or "none"
    at_attn    \* what the last Attention.forward computed

VARIABLES
    gc,        \* the GCN_DENSE instance: sizes, mode, weights and biases
    gc_pc,     \* position inside GCN_DENSE.forward
    gc_in,     \* the input of the running/last forward call: A, h, dropout draw
    gc_h,      \* the value of h at the current position
    gc_pre,    \* the value of h after layer 1, before dropout
    gc_err     \* exception raised by the running/last call, or "none"

VARIABLES
    ss,        \* the ConvNetSSM instance: channel counts, mode, its 7 blocks
    ss_pc,     \* position inside ConvNetSSM.forward
    ss_in,     \* the input of the running/last forward call
    ss_x,      \* x at the current position: shape, content, operations applied
    ss_err     \* exception raised by the running/last call, or "none"

feVars == <<fe, fe_pc, fe_in, fe_x, fe_err>>
ssVars == <<ss, ss_pc, ss_in, ss_x, ss_err>>
gcVars == <<gc, gc_pc, gc_in, gc_h, gc_pre, gc_err>>
atVars == <<tr, at_pc, at_layer, at_in, at_x, at_err, at_attn>>

vars == <<fe, fe_pc, fe_in, fe_x, fe_err,
          tr, at_pc, at_layer, at_in, at_x, at_err, at_attn,
          gc, gc_pc, gc_in, gc_h, gc_pre, gc_err,
          ss, ss_pc, ss_in, ss_x, ss_err>>

notFe == <<atVars, gcVars, ssVars>>
notAt == <<feVars, gcVars, ssVars>>
notGc == <<feVars, atVars, ssVars>>
notSs == <<feVars, atVars, gcVars>>

\* the parts of the state that a specification does not exercise
NoMask == [given |-> FALSE, rows |-> <<>>]
NoAttn == [masked |-> FALSE, err |-> "none", fill |-> {}, w |-> <<>>,
           shape |-> <<>>, dots |-> <<>>]

NoTensor == [shape |-> <<>>, data |-> 0, ops |-> <<>>]

SsIdle ==
    /\ ss = [training |-> TRUE]
    /\ ss_pc = "absent"
    /\ ss_in = [x |-> NoTensor, rng |-> 0]
    /\ ss_x = NoTensor
    /\ ss_err = "none"

GcIdle ==
    /\ gc = [training |-> TRUE]
    /\ gc_pc = "absent"
    /\ gc_in = [A |-> <<>>, h |-> <<>>, draw |-> 0]
    /\ gc_h = <<>>
    /\ gc_pre = <<>>
    /\ gc_err = "none"

AtIdle ==
    /\ tr = [depth |-> 0]
    /\ at_pc = "absent"
    /\ at_layer = 0
    /\ at_in = [shape |-> <<>>, mask |-> NoMask, seed |-> 0]
    /\ at_x = <<>>
    /\ at_err = "none"
    /\ at_attn = NoAttn

(***************************************************************************)
(* Number format.                                                          *)
(***************************************************************************)
Scale == 100

Max(a, b) == IF a >= b THEN a ELSE b

RECURSIVE SeqSum(_)
SeqSum(q) == IF q = <<>> THEN 0 ELSE q[1] + SeqSum(Tail(q))

RECURSIVE SeqMax(_)
SeqMax(q) == IF Len(q) = 1 THEN q[1] ELSE Max(q[1], SeqMax(Tail(q)))

\* e^a for a >= 0: Taylor series on [0, 1], squaring above
RECURSIVE ExpTaylor(_, _, _)
ExpTaylor(a, term, k) ==
    IF term = 0 THEN 0
    ELSE term + ExpTaylor(a, (term * a) \div (Scale * k), k + 1)

RECURSIVE ExpPos(_)
ExpPos(a) ==
    IF a <= Scale
    THEN ExpTaylor(a, Scale, 1)
    ELSE LET r == ExpPos(a \div 2) IN (r * r) \div Scale

\* below -ExpUnderflow the exponential is 0 in this number format
ExpUnderflow == 5 * Scale

\* e^x
Exp(x) ==
    IF x >= 0 THEN ExpPos(x)
    ELSE IF x <= -ExpUnderflow THEN 0
    ELSE (Scale * Scale) \div ExpPos(-x)

\* nn.ELU(): x for x > 0, e^x - 1 otherwise
ELU(x) == IF x > 0 THEN x ELSE Exp(x) - Scale

(***************************************************************************)
(* torch.nn.BatchNorm2d(num_features) with the default                     *)
(* track_running_stats=True, momentum=0.1: the buffers are created at      *)
(* construction and updated by every training-mode forward.                *)
(***************************************************************************)
BatchNorm2d(num_features) ==
    [num_features        |-> num_features,
     weight              |-> Scale,
     bias                |-> 0,
     running_mean        |-> 0,
     running_var         |-> Scale,
     num_batches_tracked |-> 0]

\* number of values per channel of a (b, c, h, w) tensor
ValuesPerChannel(x) == x[1] * x[3] * x[4]

\* running = (1 - momentum) * running + momentum * batch, momentum = 1/10
Momentum(running, batch) == (9 * running + batch) \div 10

\* [mutant of BatchNormForward] the buffers are written in eval mode as well
BatchNormForward_AlwaysTrack(bn, training, x, mean, var) ==
    IF x[2] # bn.num_features
    THEN [bn |-> bn, err |-> "RuntimeError"]
    ELSE [bn  |-> [bn EXCEPT !.num_batches_tracked = @ + 1,
                             !.running_mean = Momentum(@, mean),
                             !.running_var = Momentum(@, var)],
          err |-> "none"]

\* BatchNorm2d.forward on a tensor of shape x whose per-channel batch mean is
\* `mean` and unbiased batch variance is `var`.  In training mode
\* num_batches_tracked is incremented first; F.batch_norm then raises
\* ValueError when there is only one value per channel, and otherwise moves
\* the running statistics.  In eval mode no buffer is written.
BatchNormForward(bn, training, x, mean, var) ==
    IF x[2] # bn.num_features
    THEN [bn |-> bn, err |-> "RuntimeError"]
    ELSE IF ~training
    THEN [bn |-> bn, err |-> "none"]
    ELSE IF ValuesPerChannel(x) <= 1
    THEN [bn  |-> [bn EXCEPT !.num_batches_tracked = @ + 1],
          err |-> "ValueError"]
    ELSE [bn  |-> [bn EXCEPT !.num_batches_tracked = @ + 1,
                             !.running_mean = Momentum(@, mean),
                             !.running_var = Momentum(@, var)],
          err |-> "none"]

(***************************************************************************)
(* Res2DMaxPoolModule (lines 11-39).  The BatchNorm2d layers that follow a *)
(* convolution are modelled by their feature count and their               *)
(* num_batches_tracked buffer: their running statistics depend on the      *)
(* kernel values, which are not modelled.                                  *)
(***************************************************************************)
InnerBatchNorm2d(num_features) ==
    [num_features |-> num_features, num_batches_tracked |-> 0]

InnerBatchNormForward(bn, training, x) ==
    IF x[2] # bn.num_features
    THEN [bn |-> bn, err |-> "RuntimeError"]
    ELSE IF ~training
    THEN [bn |-> bn, err |-> "none"]
    ELSE [bn  |-> [bn EXCEPT !.num_batches_tracked = @ + 1],
          err |-> IF ValuesPerChannel(x) <= 1 THEN "ValueError" ELSE "none"]

\* nn.Conv2d(in_channels, out_channels, 3, padding=1): the spatial size is
\* kept, the channel count must be in_channels
Conv2d3x3(in_channels, out_channels, x) ==
    IF x[2] # in_channels
    THEN [x |-> x, err |-> "RuntimeError"]
    ELSE [x |-> <<x[1], out_channels, x[3], x[4]>>, err |-> "none"]

\* nn.MaxPool2d(pooling): stride = kernel, no padding, floor mode; an output
\* dimension of 0 is an error
MaxPool2d(pooling, x) ==
    LET h == x[3] \div pooling[1]
        w == x[4] \div pooling[2]
    IN  IF h = 0 \/ w = 0
        THEN [x |-> x, err |-> "RuntimeError"]
        ELSE [x |-> <<x[1], x[2], h, w>>, err |-> "none"]

Res2DMaxPoolModule(input_channels, output_channels, pooling) ==
    [input_channels  |-> input_channels,
     output_channels |-> output_channels,
     pooling         |-> pooling,
     bn_1            |-> InnerBatchNorm2d(output_channels),
     bn_2            |-> InnerBatchNorm2d(output_channels),
     bn_3            |-> InnerBatchNorm2d(output_channels),
     diff            |-> (input_channels # output_channels)]

\* Res2DMaxPoolModule.forward: the module after the call, the shape of the
\* result and the exception raised ("none" when the call returns).  A layer
\* that ran before the exception keeps the buffer it has written.
Res2DMaxPoolForward(m, training, x) ==
    LET c1 == Conv2d3x3(m.input_channels, m.output_channels, x)
        b1 == InnerBatchNormForward(m.bn_1, training, c1.x)
        m1 == [m EXCEPT !.bn_1 = b1.bn]
        c2 == Conv2d3x3(m.output_channels, m.output_channels, c1.x)
        b2 == InnerBatchNormForward(m.bn_2, training, c2.x)
        m2 == [m1 EXCEPT !.bn_2 = b2.bn]
        c3 == Conv2d3x3(m.input_channels, m.output_channels, x)
        b3 == InnerBatchNormForward(m.bn_3, training, c3.x)
        m3 == [m2 EXCEPT !.bn_3 = b3.bn]
        mp == MaxPool2d(m.pooling, c2.x)
    IN  IF c1.err # "none" THEN [m |-> m, x |-> x, err |-> c1.err]
        ELSE IF b1.err # "none" THEN [m |-> m1, x |-> x, err |-> b1.err]
        ELSE IF b2.err # "none" THEN [m |-> m2, x |-> x, err |-> b2.err]
        ELSE IF m.diff /\ b3.err # "none" THEN [m |-> m3, x |-> x, err |-> b3.err]
        ELSE [m   |-> IF m.diff THEN m3 ELSE m2,
              x   |-> mp.x,
              err |-> mp.err]

(***************************************************************************)
(* ResFrontEnd (lines 42-74).                                              *)
(***************************************************************************)
\* [mutant of ResFrontEnd] layer3 pools time as well: pooling=(2, 2)
ResFrontEnd_Pool3Time(conv_ndim, nharmonics, nmels, output_size) ==
    [conv_ndim   |-> conv_ndim,
     nharmonics  |-> nharmonics,
     nmels       |-> nmels,
     output_size |-> output_size,
     training    |-> TRUE,
     input_bn    |-> BatchNorm2d(nharmonics),
     layer1      |-> Res2DMaxPoolModule(nharmonics, conv_ndim, <<2, 2>>),
     layer2      |-> Res2DMaxPoolModule(conv_ndim, conv_ndim, <<2, 2>>),
     layer3      |-> Res2DMaxPoolModule(conv_ndim, conv_ndim, <<2, 2>>),
     fc_dim      |-> (((nmels \div 2) \div 2) \div 2) * conv_ndim]

ResFrontEnd(conv_ndim, nharmonics, nmels, output_size) ==
    [conv_ndim   |-> conv_ndim,
     nharmonics  |-> nharmonics,
     nmels       |-> nmels,
     output_size |-> output_size,
     training    |-> TRUE,
     input_bn    |-> BatchNorm2d(nharmonics),
     layer1      |-> Res2DMaxPoolModule(nharmonics, conv_ndim, <<2, 2>>),
     layer2      |-> Res2DMaxPoolModule(conv_ndim, conv_ndim, <<2, 2>>),
     layer3      |-> Res2DMaxPoolModule(conv_ndim, conv_ndim, <<2, 1>>),
     fc_dim      |-> (((nmels \div 2) \div 2) \div 2) * conv_ndim]

\* nn.Linear(in_features, out_features) on a tensor whose last axis is `last`
Linear(in_features, out_features, x) ==
    IF x[Len(x)] # in_features
    THEN [x |-> x, err |-> "RuntimeError"]
    ELSE [x |-> [x EXCEPT ![Len(x)] = out_features], err |-> "none"]

\* lines 69-73: permute(0, 3, 1, 2), view(b, t, -1), dropout, fc
PermuteViewFc(m, x) ==
    LET b == x[1]
        c == x[2]
        f == x[3]
        t == x[4]
    IN  Linear(m.fc_dim, m.output_size, <<b, t, c * f>>)

----------------------------------------------------------------------------
(* Bounds and the inputs drawn from them.                                  *)
MaxMels  == 8
MaxTime  == 4
MaxBatch == 2
MaxCalls == 1

\* (conv_ndim, output_size) pairs; the second is the scenario of the spec
Widths == {<<2, 3>>, <<64, 128>>}
Mels   == {1, 7} \cup (8..MaxMels) \cup {96}
Times  == (1..MaxTime) \cup {200}
\* per-channel batch statistics of the input tensor: <<mean, unbiased var>>
BatchStats == {<<0, Scale>>, <<2 * Scale, 3 * Scale>>}

FeIdle ==
    /\ fe = [training |-> TRUE]
    /\ fe_pc = "absent"
    /\ fe_in = [shape |-> <<>>, mean |-> 0, var |-> 0]
    /\ fe_x = <<>>
    /\ fe_err = "none"

FeInit ==
    /\ \E w \in Widths, nharmonics \in 1..2, nmels \in Mels :
           fe = ResFrontEnd(w[1], nharmonics, nmels, w[2])
    /\ fe_pc = "idle"
    /\ fe_in = [shape |-> <<>>, mean |-> 0, var |-> 0]
    /\ fe_x = <<>>
    /\ fe_err = "none"

\* nn.Module.train() / nn.Module.eval()
SetMode(mode) ==
    /\ fe_pc \in {"idle", "done"}
    /\ fe.training # mode
    /\ fe' = [fe EXCEPT !.training = mode]
    /\ UNCHANGED <<fe_pc, fe_in, fe_x, fe_err>>
    /\ UNCHANGED notFe

\* line 61: out = self.input_bn(hcqt)
ForwardInputBn ==
    /\ fe_pc \in {"idle", "done"}
    /\ fe.training => fe.input_bn.num_batches_tracked < MaxCalls
    /\ \E b \in 1..MaxBatch, t \in Times, st \in BatchStats :
          LET x == <<b, fe.nharmonics, fe.nmels, t>>
              r == BatchNormForward(fe.input_bn, fe.training, x, st[1], st[2])
          IN  /\ fe_in' = [shape |-> x, mean |-> st[1], var |-> st[2]]
              /\ fe' = [fe EXCEPT !.input_bn = r.bn]
              /\ fe_x' = x
              /\ fe_err' = r.err
              /\ fe_pc' = IF r.err = "none" THEN "layer1" ELSE "done"
    /\ UNCHANGED notFe

\* lines 64-66: out = self.layerN(out)
ForwardLayer(pc, next) ==
    /\ fe_pc = pc
    /\ LET r == Res2DMaxPoolForward(fe[pc], fe.training, fe_x)
       IN  /\ fe' = [fe EXCEPT ![pc] = r.m]
           /\ fe_x' = r.x
           /\ fe_err' = r.err
           /\ fe_pc' = IF r.err = "none" THEN next ELSE "done"
    /\ UNCHANGED <<fe_in, notFe>>

\* lines 69-74
ForwardFc ==
    /\ fe_pc = "fc"
    /\ LET r == PermuteViewFc(fe, fe_x)
       IN  /\ fe_x' = r.x
           /\ fe_err' = r.err
    /\ fe_pc' = "done"
    /\ UNCHANGED <<fe, fe_in, notFe>>

ForwardStep ==
    \/ ForwardInputBn
    \/ ForwardLayer("layer1", "layer2")
    \/ ForwardLayer("layer2", "layer3")
    \/ ForwardLayer("layer3", "fc")
    \/ ForwardFc

NextFrontEnd ==
    \/ SetMode(TRUE)
    \/ SetMode(FALSE)
    \/ ForwardStep

InitFrontEnd == FeInit /\ AtIdle /\ GcIdle /\ SsIdle

SpecFrontEnd == InitFrontEnd /\ [][NextFrontEnd]_vars

----------------------------------------------------------------------------
(***************************************************************************)
(* Attention (lines 115-145) and Transformer (lines 148-170).              *)
(***************************************************************************)

\* nn.Linear(in_features, out_features): its weight shape
LinearLayer(in_features, out_features) ==
    [in_features |-> in_features, out_features |-> out_features]

\* [mutant of Attention] the output projection is sized as if
\* dim_head * heads were dim
Attention_OutFromDim(dim, heads, dim_head) ==
    LET inner_dim == dim_head * heads
    IN  [heads  |-> heads,
         to_qkv |-> [in_features |-> dim, out_features |-> inner_dim * 3],
         to_out |-> [in_features |-> dim, out_features |-> dim]]

\* Attention.__init__: no argument is checked; inner_dim is the width of the
\* heads side of both projections
Attention(dim, heads, dim_head) ==
    LET inner_dim == dim_head * heads
    IN  [heads  |-> heads,
         to_qkv |-> LinearLayer(dim, inner_dim * 3),
         to_out |-> LinearLayer(inner_dim, dim)]

\* Transformer.__init__: depth layers, each an Attention and a FeedForward
\* inside Residual(PreNorm(dim, .))
Transformer(dim, depth, heads, dim_head, mlp_dim) ==
    [dim     |-> dim,
     depth   |-> depth,
     heads   |-> heads,
     dim_head |-> dim_head,
     layers  |-> [l \in 1..depth |->
                    [norm |-> dim,
                     attn |-> Attention(dim, heads, dim_head),
                     ff   |-> <<LinearLayer(dim, mlp_dim),
                                LinearLayer(mlp_dim, dim)>>]]]

\* the most negative score: -torch.finfo(dots.dtype).max
FloatMax == 1000000000
mask_value == -FloatMax

\* [mutant of PadMask] the mask is used as given, without the prepended position
PadMask_NoPad(rows) == rows

\* line 134: F.pad(mask.flatten(1), (1, 0), value=True)
PadMask(rows) == [b \in 1..Len(rows) |-> <<TRUE>> \o rows[b]]

\* line 136: mask[:, None, :] * mask[:, :, None], of shape (b, n, n)
PairMask(padded) ==
    [b \in 1..Len(padded) |->
        [i \in 1..Len(padded[b]) |->
            [j \in 1..Len(padded[b]) |-> padded[b][j] /\ padded[b][i]]]]

\* line 137: dots.masked_fill_(~mask, mask_value) broadcasts the (b, n, n)
\* mask against the (b, h, n, n) scores from the trailing axis: the leading
\* axis of the mask meets the HEAD axis of the scores, so the sizes must be
\* equal or the mask's be 1
FillBroadcasts(b, h) == b = h \/ b = 1

\* [mutant of FillSet] masked_fill_(mask, ...): the negation is left out
FillSet_Unnegated(pair, b, h, n) ==
    {p \in (1..b) \X (1..h) \X (1..n) \X (1..n) :
        pair[IF Len(pair) = 1 THEN 1 ELSE p[2]][p[3]][p[4]]}

\* the positions masked_fill_ overwrites, as <<batch, head, query, key>>
FillSet(pair, b, h, n) ==
    {p \in (1..b) \X (1..h) \X (1..n) \X (1..n) :
        ~pair[IF Len(pair) = 1 THEN 1 ELSE p[2]][p[3]][p[4]]}

\* line 140: softmax over the last axis of one row of scores, as the
\* numerators e^(s - max); the weight of key j is row[j] / SeqSum(row)
SoftmaxRow(scores) ==
    LET m == SeqMax(scores)
    IN  [j \in 1..Len(scores) |-> Exp(scores[j] - m)]

\* Attention.forward(x, mask) on x of shape `x` with the scaled dot products
\* `dots` (a function of <<batch, head, query, key>>): the exception raised,
\* the overwritten positions, the softmax numerators per <<batch, head,
\* query>> and the shape of the result
AttentionForward(a, x, mask, dots) ==
    LET b == x[1]
        n == x[2]
        h == a.heads
        qkv == Linear(a.to_qkv.in_features, a.to_qkv.out_features, x)
        \* chunk(3, dim=-1), then 'b n (h d) -> b h n d'
        d == (qkv.x[3] \div 3) \div h
        padded == PadMask(mask.rows)
        lenOk == \A r \in 1..Len(padded) : Len(padded[r]) = n
        fill == IF mask.given
                THEN FillSet(PairMask(padded), b, h, n)
                ELSE {}
        filled == [p \in (1..b) \X (1..h) \X (1..n) \X (1..n) |->
                      IF p \in fill THEN mask_value ELSE dots[p]]
        attn == [q \in (1..b) \X (1..h) \X (1..n) |->
                    SoftmaxRow([j \in 1..n |-> filled[<<q[1], q[2], q[3], j>>]])]
        \* 'b h n d -> b n (h d)', then to_out
        out == Linear(a.to_out.in_features, a.to_out.out_features, <<b, n, h * d>>)
        none == [masked |-> mask.given, err |-> "none", fill |-> {}, w |-> <<>>,
                 shape |-> x, dots |-> dots]
    IN  IF Len(x) # 3 THEN [none EXCEPT !.err = "ValueError"]
        ELSE IF qkv.err # "none" THEN [none EXCEPT !.err = qkv.err]
        ELSE IF mask.given /\ ~lenOk THEN [none EXCEPT !.err = "AssertionError"]
        ELSE IF mask.given /\ ~FillBroadcasts(Len(padded), h)
        THEN [none EXCEPT !.err = "RuntimeError"]
        ELSE IF out.err # "none" THEN [none EXCEPT !.err = out.err]
        ELSE [none EXCEPT !.fill = fill, !.w = attn, !.shape = out.x]

\* x + fn(x) of Residual.forward: the shapes must broadcast; here both are
\* (b, n, .) and only equal last axes are accepted without broadcasting
ResidualAdd(x, y) ==
    IF x = y \/ (Len(x) = Len(y) /\ \A k \in 1..Len(x) :
                     x[k] = y[k] \/ x[k] = 1 \/ y[k] = 1)
    THEN [x |-> [k \in 1..Len(x) |-> Max(x[k], y[k])], err |-> "none"]
    ELSE [x |-> x, err |-> "RuntimeError"]

\* nn.LayerNorm(dim): the last axis must be dim
LayerNorm(dim, x) ==
    IF x[Len(x)] # dim
    THEN [x |-> x, err |-> "RuntimeError"]
    ELSE [x |-> x, err |-> "none"]

\* FeedForward.forward: Linear, GELU, Dropout, Linear, Dropout
FeedForward(ff, x) ==
    LET h == Linear(ff[1].in_features, ff[1].out_features, x)
    IN  IF h.err # "none" THEN h
        ELSE Linear(ff[2].in_features, ff[2].out_features, h.x)

(* Bounds and the inputs drawn from them. *)
MaxSeq   == 2
MaxHeads == 2
MaxDepth == 2

Dims == {2, 4}
DimHeads == {1, 2}
MlpDim == 3

\* the scaled dot products of a call: one of three values per position,
\* varied by a seed standing for the input values and the layer's weights
Scores(seed, b, h, n) ==
    [p \in (1..b) \X (1..h) \X (1..n) \X (1..n) |->
        (((seed + p[1] + 2 * p[2] + p[3] * p[4] + p[4]) % 3) - 1) * Scale]

RECURSIVE BoolSeqs(_)
BoolSeqs(len) ==
    IF len = 0 THEN {<<>>}
    ELSE {<<v>> \o q : v \in BOOLEAN, q \in BoolSeqs(len - 1)}

\* masks of shape (b, len)
Masks(b, len) == {[given |-> TRUE, rows |-> r] : r \in [1..b -> BoolSeqs(len)]}

AtInit ==
    /\ \E dim \in Dims, depth \in 1..MaxDepth, heads \in 1..MaxHeads,
          dim_head \in DimHeads :
           tr = Transformer(dim, depth, heads, dim_head, MlpDim)
    /\ at_pc = "idle"
    /\ at_layer = 0
    /\ at_in = [shape |-> <<>>, mask |-> NoMask, seed |-> 0]
    /\ at_x = <<>>
    /\ at_err = "none"
    /\ at_attn = NoAttn

\* Transformer.forward(x, mask) is entered with x of shape (b, n, dim)
TransformerForward ==
    /\ at_pc = "idle"
    /\ \E b \in 1..MaxBatch, n \in 1..MaxSeq, len \in 0..MaxSeq, seed \in 0..1 :
       \E mask \in {NoMask} \cup Masks(b, len) :
          /\ at_in' = [shape |-> <<b, n, tr.dim>>, mask |-> mask, seed |-> seed]
          /\ at_x' = <<b, n, tr.dim>>
    /\ at_layer' = 1
    /\ at_err' = "none"
    /\ at_attn' = NoAttn
    /\ at_pc' = "attn"
    /\ UNCHANGED <<tr, notAt>>

\* line 168: x = attn(x, mask=mask), attn = Residual(PreNorm(dim, Attention))
AttentionStep ==
    /\ at_pc = "attn"
    /\ LET layer == tr.layers[at_layer]
           nx == LayerNorm(layer.norm, at_x)
           r  == AttentionForward(layer.attn, nx.x, at_in.mask,
                     Scores(at_in.seed + at_layer, at_x[1], layer.attn.heads, at_x[2]))
           s  == ResidualAdd(at_x, r.shape)
           err == IF nx.err # "none" THEN nx.err
                  ELSE IF r.err # "none" THEN r.err ELSE s.err
       IN  /\ at_attn' = IF nx.err # "none" THEN NoAttn ELSE r
           /\ at_err' = err
           /\ at_x' = IF err = "none" THEN s.x ELSE at_x
           /\ at_pc' = IF err = "none" THEN "ff" ELSE "done"
    /\ UNCHANGED <<tr, at_layer, at_in, notAt>>

\* line 169: x = ff(x), ff = Residual(PreNorm(dim, FeedForward))
FeedForwardStep ==
    /\ at_pc = "ff"
    /\ LET layer == tr.layers[at_layer]
           nx == LayerNorm(layer.norm, at_x)
           r  == FeedForward(layer.ff, nx.x)
           s  == ResidualAdd(at_x, r.x)
           err == IF nx.err # "none" THEN nx.err
                  ELSE IF r.err # "none" THEN r.err ELSE s.err
       IN  /\ at_err' = err
           /\ at_x' = IF err = "none" THEN s.x ELSE at_x
           /\ at_pc' = IF err # "none" \/ at_layer = tr.depth THEN "done" ELSE "attn"
           /\ at_layer' = IF err # "none" \/ at_layer = tr.depth
                          THEN at_layer ELSE at_layer + 1
    /\ UNCHANGED <<tr, at_in, at_attn, notAt>>

\* line 170: return x (or the exception reaches the caller)
TransformerReturn ==
    /\ at_pc = "done"
    /\ at_pc' = "idle"
    /\ at_layer' = 0
    /\ at_in' = [shape |-> <<>>, mask |-> NoMask, seed |-> 0]
    /\ at_x' = <<>>
    /\ at_err' = "none"
    /\ at_attn' = NoAttn
    /\ UNCHANGED <<tr, notAt>>

NextAttention ==
    \/ TransformerForward
    \/ TransformerReturn
    \/ AttentionStep
    \/ FeedForwardStep

InitAttention == AtInit /\ FeIdle /\ GcIdle /\ SsIdle

SpecAttention == InitAttention /\ [][NextAttention]_vars

----------------------------------------------------------------------------
(***************************************************************************)
(* GCN_DENSE (lines 237-253).  A matrix is a sequence of rows; its entries *)
(* are fixed-point numbers.                                                *)
(***************************************************************************)
Rows(m) == Len(m)
Cols(m) == Len(m[1])

\* fixed-point product
Mul(a, b) == (a * b) \div Scale

\* X @ Y; the inner sizes must agree
MatMul(x, y) ==
    IF Cols(x) # Rows(y)
    THEN [v |-> x, err |-> "RuntimeError"]
    ELSE [v |-> [i \in 1..Rows(x) |-> [k \in 1..Cols(y) |->
                    SeqSum([j \in 1..Cols(x) |-> Mul(x[i][j], y[j][k])])]],
          err |-> "none"]

\* X + Y for two matrices with the same number of rows, under the
\* broadcasting rule of the tensor library: the column counts must be equal
\* or one of them 1, and the narrow operand is repeated
BroadcastAdd(x, y) ==
    IF ~(Cols(x) = Cols(y) \/ Cols(x) = 1 \/ Cols(y) = 1)
    THEN [v |-> x, err |-> "RuntimeError"]
    ELSE [v |-> [i \in 1..Rows(x) |-> [k \in 1..Max(Cols(x), Cols(y)) |->
                    x[i][IF Cols(x) = 1 THEN 1 ELSE k]
                      + y[i][IF Cols(y) = 1 THEN 1 ELSE k]]],
          err |-> "none"]

\* DenseGraphConv(in_feats, out_feats, norm='right', bias=True,
\* activation=None) as constructed: the bias starts at zero
DenseGraphConv(in_feats, out_feats, weight) ==
    [in_feats  |-> in_feats,
     out_feats |-> out_feats,
     weight    |-> weight,
     bias      |-> [k \in 1..out_feats |-> 0]]

\* DenseGraphConv.forward(adj, feat): aggregate over the adjacency and
\* multiply by the weight (the weight first when it narrows the features),
\* divide each row by its degree clamped to at least 1, add the bias
DenseGraphConvForward(c, adj, feat) ==
    LET first == IF c.in_feats > c.out_feats
                 THEN MatMul(feat, c.weight)
                 ELSE MatMul(adj, feat)
        rst   == IF c.in_feats > c.out_feats
                 THEN MatMul(adj, first.v)
                 ELSE MatMul(first.v, c.weight)
        deg   == [i \in 1..Rows(adj) |-> Max(SeqSum(adj[i]), Scale)]
        norm  == [i \in 1..Rows(adj) |-> (Scale * Scale) \div deg[i]]
    IN  IF first.err # "none" THEN first
        ELSE IF rst.err # "none" THEN rst
        ELSE [v |-> [i \in 1..Rows(rst.v) |-> [k \in 1..Cols(rst.v) |->
                        Mul(rst.v[i][k], norm[i]) + c.bias[k]]],
              err |-> "none"]

\* GCN_DENSE.__init__: both layers are built with in_feats=in_size and
\* out_feats=hid_size
GCN_DENSE(in_size, hid_size, w1, w2) ==
    [in_size  |-> in_size,
     hid_size |-> hid_size,
     training |-> TRUE,
     conv_1   |-> DenseGraphConv(in_size, hid_size, w1),
     conv_2   |-> DenseGraphConv(in_size, hid_size, w2)]

\* [mutant of Layer1] the residual is added inside the activation
Layer1_AddThenActivate(g, adj, h) ==
    LET c == DenseGraphConvForward(g.conv_1, adj, h)
        s == BroadcastAdd(c.v, h)
    IN  IF c.err # "none" THEN c
        ELSE IF s.err # "none" THEN s
        ELSE [v |-> [i \in 1..Rows(s.v) |-> [k \in 1..Cols(s.v) |-> ELU(s.v[i][k])]],
              err |-> "none"]

\* line 249: h = self.relu(self.conv_1(A, h)) + h
Layer1(g, adj, h) ==
    LET c == DenseGraphConvForward(g.conv_1, adj, h)
        a == [i \in 1..Rows(c.v) |-> [k \in 1..Cols(c.v) |-> ELU(c.v[i][k])]]
    IN  IF c.err # "none" THEN c ELSE BroadcastAdd(a, h)

\* line 251: h = self.conv_2(A, h) + h
Layer2(g, adj, h) ==
    LET c == DenseGraphConvForward(g.conv_2, adj, h)
    IN  IF c.err # "none" THEN c ELSE BroadcastAdd(c.v, h)

\* nn.Dropout(0.2): the identity in eval mode; in training mode the dropped
\* entries become 0 and the kept ones are scaled by 1 / (1 - 0.2) = 5/4.
\* `draw` selects the entries that are dropped: none, those at an even
\* row + column, or all.
Dropout(training, draw, h) ==
    IF ~training THEN h
    ELSE [i \in 1..Rows(h) |-> [k \in 1..Cols(h) |->
            IF draw = 2 \/ (draw = 1 /\ (i + k) % 2 = 0)
            THEN 0
            ELSE (h[i][k] * 5) \div 4]]

(* Bounds and the inputs drawn from them. *)
MaxNodes == 2
MaxFeat  == 3

\* an r x c matrix with entries -1, 0, 1 chosen by a seed
Pattern(r, c, seed) ==
    [i \in 1..r |-> [k \in 1..c |-> (((seed + i + 2 * k) % 3) - 1) * Scale]]

\* adjacency matrices: no edge, self loops only, every edge
Adjacency(n, kind) ==
    [i \in 1..n |-> [j \in 1..n |->
        IF kind = "ones" \/ (kind = "eye" /\ i = j) THEN Scale ELSE 0]]

GcInit ==
    /\ \E in_size \in 1..MaxFeat, hid_size \in 1..MaxFeat, seed \in 0..1 :
           gc = GCN_DENSE(in_size, hid_size,
                          Pattern(in_size, hid_size, seed),
                          Pattern(in_size, hid_size, seed + 1))
    /\ gc_pc = "idle"
    /\ gc_in = [A |-> <<>>, h |-> <<>>, draw |-> 0]
    /\ gc_h = <<>>
    /\ gc_pre = <<>>
    /\ gc_err = "none"

\* the external training procedure (or a loaded checkpoint) writes the
\* learned biases of both layers
WriteBias ==
    /\ gc_pc = "idle"
    /\ \E b1 \in {-Scale, 0, Scale}, b2 \in {0, Scale} :
          /\ b1 # gc.conv_1.bias[1] \/ b2 # gc.conv_2.bias[1]
          /\ gc' = [gc EXCEPT !.conv_1.bias = [k \in 1..gc.hid_size |-> b1],
                              !.conv_2.bias = [k \in 1..gc.hid_size |-> b2]]
    /\ UNCHANGED <<gc_pc, gc_in, gc_h, gc_pre, gc_err, notGc>>

\* nn.Module.eval() / nn.Module.train()
GcSetMode ==
    /\ gc_pc = "idle"
    /\ gc' = [gc EXCEPT !.training = ~@]
    /\ UNCHANGED <<gc_pc, gc_in, gc_h, gc_pre, gc_err, notGc>>

\* lines 249-250, on A of shape (nodes, nodes) and h of shape (nodes, in_size)
ForwardLayer1 ==
    /\ gc_pc = "idle"
    /\ \E n \in 1..MaxNodes, kind \in {"zero", "eye", "ones"}, seed \in 0..2,
          draw \in 0..2 :
          LET adj == Adjacency(n, kind)
              h   == Pattern(n, gc.in_size, seed)
              r   == Layer1(gc, adj, h)
          IN  /\ ~gc.training => draw = 0
              /\ gc_in' = [A |-> adj, h |-> h, draw |-> draw]
              /\ gc_err' = r.err
              /\ gc_pre' = IF r.err = "none" THEN r.v ELSE <<>>
              /\ gc_h' = IF r.err = "none"
                         THEN Dropout(gc.training, draw, r.v) ELSE h
              /\ gc_pc' = IF r.err = "none" THEN "layer2" ELSE "done"
    /\ UNCHANGED <<gc, notGc>>

\* lines 251-253
ForwardLayer2 ==
    /\ gc_pc = "layer2"
    /\ LET r == Layer2(gc, gc_in.A, gc_h)
       IN  /\ gc_err' = r.err
           /\ gc_h' = IF r.err = "none"
                      THEN Dropout(gc.training, gc_in.draw, r.v) ELSE gc_h
    /\ gc_pc' = "done"
    /\ UNCHANGED <<gc, gc_in, gc_pre, notGc>>

\* the call has returned (or raised) and the module is called again
GcReturn ==
    /\ gc_pc = "done"
    /\ gc_pc' = "idle"
    /\ gc_in' = [A |-> <<>>, h |-> <<>>, draw |-> 0]
    /\ gc_h' = <<>>
    /\ gc_pre' = <<>>
    /\ gc_err' = "none"
    /\ UNCHANGED <<gc, notGc>>

NextGCN ==
    \/ WriteBias
    \/ GcSetMode
    \/ ForwardLayer1
    \/ ForwardLayer2
    \/ GcReturn

InitGCN == GcInit /\ FeIdle /\ AtIdle /\ SsIdle

SpecGCN == InitGCN /\ [][NextGCN]_vars

----------------------------------------------------------------------------
(***************************************************************************)
(* Conv_2d (lines 173-198) and ConvNetSSM (lines 201-234).  A tensor is    *)
(* its shape, a token for its content as given by the caller, and the      *)
(* operations applied to that content so far: two tensors are equal when   *)
(* the three agree.                                                        *)
(***************************************************************************)

\* nn.BatchNorm2d(c, affine=False, track_running_stats=False): no buffer and
\* no parameter; batch statistics are used in both modes, so a single value
\* per channel is an error in both
BatchNormNoStats(x) ==
    IF Len(x.shape) # 4
    THEN [x |-> x, err |-> "ValueError"]
    ELSE IF ValuesPerChannel(x.shape) <= 1
    THEN [x |-> x, err |-> "ValueError"]
    ELSE [x |-> [x EXCEPT !.ops = Append(@, <<"bn">>)], err |-> "none"]

\* Conv_2d.__init__, with the dilation of its main convolution
Conv_2d(input_channels, output_channels, dilation) ==
    [input_channels  |-> input_channels,
     output_channels |-> output_channels,
     dilation        |-> dilation]

\* EMA(channels, factor=4).forward keeps the shape of its input
EMA(x) == [x EXCEPT !.ops = Append(@, <<"ema">>)]

\* Conv_2d.forward: convolution (padding='same', so the spatial size is
\* kept), attention, batch norm, 1x1 shortcut of the block's input with its
\* own batch norm, sum, ELU, dropout.  `drop` is the dropout mask drawn, 0 in
\* eval mode.
Conv2dForward(c, x, drop) ==
    LET conv == [x EXCEPT !.shape = [@ EXCEPT ![2] = c.output_channels],
                          !.ops = Append(@, <<"conv", c.dilation>>)]
        bn   == BatchNormNoStats(EMA(conv))
        out  == [bn.x EXCEPT !.ops = Append(@, <<"shortcut+elu+dropout", drop>>)]
    IN  IF x.shape[2] # c.input_channels
        THEN [x |-> x, err |-> "RuntimeError"]
        ELSE IF bn.err # "none" THEN [x |-> x, err |-> bn.err]
        ELSE [x |-> out, err |-> "none"]

\* ConvNetSSM.__init__: conv1 .. conv7 with dilations 1 .. 64
ConvNetSSM(input_channels, output_channels) ==
    [input_channels  |-> input_channels,
     output_channels |-> output_channels,
     training        |-> TRUE,
     convs |-> <<Conv_2d(input_channels, output_channels, 1),
                 Conv_2d(output_channels, output_channels, 2),
                 Conv_2d(output_channels, output_channels, 4),
                 Conv_2d(output_channels, output_channels, 8),
                 Conv_2d(output_channels, output_channels, 16),
                 Conv_2d(output_channels, output_channels, 32),
                 Conv_2d(output_channels, output_channels, 64)>>]

\* [mutant of Reshape] a 3D input gets its unit axis after the first axis
Reshape_ChannelAxis(x) ==
    IF Len(x.shape) = 2
    THEN [x EXCEPT !.shape = <<1, 1>> \o @]
    ELSE IF Len(x.shape) = 3
    THEN [x EXCEPT !.shape = <<@[1], 1, @[2], @[3]>>]
    ELSE x

\* lines 220-223: unsqueeze(0).unsqueeze(1) for 2D, unsqueeze(0) for 3D
Reshape(x) ==
    IF Len(x.shape) = 2
    THEN [x EXCEPT !.shape = <<1>> \o <<1>> \o @]
    ELSE IF Len(x.shape) = 3
    THEN [x EXCEPT !.shape = <<1>> \o @]
    ELSE x

\* the dropout mask the k-th block draws in training mode under the random
\* state `rng`; none (0) in eval mode
DropDraw(training, rng, k) == IF training THEN 1 + ((rng + k) % 2) ELSE 0

\* blocks k .. 7 applied in order, stopping at the first exception
RECURSIVE ApplyConvs(_, _, _, _)
ApplyConvs(m, x, rng, k) ==
    IF k > Len(m.convs) THEN [x |-> x, err |-> "none"]
    ELSE LET r == Conv2dForward(m.convs[k], x, DropDraw(m.training, rng, k))
         IN  IF r.err # "none" THEN r ELSE ApplyConvs(m, r.x, rng, k + 1)

\* ConvNetSSM.forward as one function of the module, the input and the
\* random state
ConvNetSSMForward(m, x, rng) ==
    LET bn == BatchNormNoStats(Reshape(x))
    IN  IF bn.err # "none" THEN bn ELSE ApplyConvs(m, bn.x, rng, 1)

(* Bounds and the inputs drawn from them. *)
MaxDim == 2

RECURSIVE Shapes(_)
Shapes(rank) ==
    IF rank = 0 THEN {<<>>}
    ELSE {<<d>> \o q : d \in 1..MaxDim, q \in Shapes(rank - 1)}

SsInit ==
    /\ \E input_channels \in 1..2, output_channels \in {4, 8} :
           ss = ConvNetSSM(input_channels, output_channels)
    /\ ss_pc = "idle"
    /\ ss_in = [x |-> NoTensor, rng |-> 0]
    /\ ss_x = NoTensor
    /\ ss_err = "none"

\* nn.Module.eval() / nn.Module.train()
SsSetMode ==
    /\ ss_pc = "idle"
    /\ ss' = [ss EXCEPT !.training = ~@]
    /\ UNCHANGED <<ss_pc, ss_in, ss_x, ss_err, notSs>>

\* lines 220-223: the rank of the input is brought to 4
SsReshape ==
    /\ ss_pc = "idle"
    /\ \E rank \in 2..4, data \in 1..2, rng \in 0..1 :
       \E shape \in Shapes(rank) :
          LET x == [shape |-> shape, data |-> data, ops |-> <<>>]
          IN  /\ ss_in' = [x |-> x, rng |-> rng]
              /\ ss_x' = Reshape(x)
    /\ ss_err' = "none"
    /\ ss_pc' = "input_bn"
    /\ UNCHANGED <<ss, notSs>>

\* line 225: x = self.input_bn(x)
SsInputBn ==
    /\ ss_pc = "input_bn"
    /\ LET r == BatchNormNoStats(ss_x)
       IN  /\ ss_x' = r.x
           /\ ss_err' = r.err
           /\ ss_pc' = IF r.err = "none" THEN "conv1" ELSE "done"
    /\ UNCHANGED <<ss, ss_in, notSs>>

\* lines 227-233: x = self.convK(x)
SsConv(k, pc, next) ==
    /\ ss_pc = pc
    /\ LET r == Conv2dForward(ss.convs[k], ss_x, DropDraw(ss.training, ss_in.rng, k))
       IN  /\ ss_x' = r.x
           /\ ss_err' = r.err
           /\ ss_pc' = IF r.err = "none" THEN next ELSE "done"
    /\ UNCHANGED <<ss, ss_in, notSs>>

\* line 234: return x (or the exception reaches the caller)
SsReturn ==
    /\ ss_pc = "done"
    /\ ss_pc' = "idle"
    /\ ss_in' = [x |-> NoTensor, rng |-> 0]
    /\ ss_x' = NoTensor
    /\ ss_err' = "none"
    /\ UNCHANGED <<ss, notSs>>

NextSSM ==
    \/ SsSetMode
    \/ SsReshape
    \/ SsInputBn
    \/ SsConv(1, "conv1", "conv2")
    \/ SsConv(2, "conv2", "conv3")
    \/ SsConv(3, "conv3", "conv4")
    \/ SsConv(4, "conv4", "conv5")
    \/ SsConv(5, "conv5", "conv6")
    \/ SsConv(6, "conv6", "conv7")
    \/ SsConv(7, "conv7", "done")
    \/ SsReturn

InitSSM == SsInit /\ FeIdle /\ AtIdle /\ GcIdle

SpecSSM == InitSSM /\ [][NextSSM]_vars

----------------------------------------------------------------------------
(* Claims about ResFrontEnd, checked under SpecFrontEnd.                   *)

FeReturned == fe_pc = "done" /\ fe_err = "none" /\ Len(fe_in.shape) = 4

\* C1 (as stated): every forward call that returns yields a tensor of shape
\* (batch, time, output_size), the time length of the input being kept.
C1_SameTimeLength ==
    FeReturned => fe_x = <<fe_in.shape[1], fe_in.shape[4], fe.output_size>>

\* C1 (amended): a forward call on (batch, nharmonics, nmels, time) with
\* nmels >= 8 and time >= 4 returns shape (batch, time // 2 // 2,
\* output_size); with nmels < 8 or time < 4 it raises; the input
\* (2, 1, 96, 200) of the (64, 1, 96, 128) front end returns (2, 50, 128).
C1_TimeHalvedTwice ==
    (fe_pc = "done" /\ Len(fe_in.shape) = 4) =>
        LET b == fe_in.shape[1]
            t == fe_in.shape[4]
        IN  /\ IF fe.nmels >= 8 /\ t >= 4
               THEN /\ fe_err = "none"
                    /\ fe_x = <<b, (t \div 2) \div 2, fe.output_size>>
               ELSE fe_err # "none"
            /\ (fe_in.shape = <<2, 1, 96, 200>> /\ fe.conv_ndim = 64
                    /\ fe.output_size = 128)
                 => fe_x = <<2, 50, 128>>

C1_Witness ==
    /\ FeReturned
    /\ fe_in.shape = <<2, 1, 96, 200>>
    /\ fe.conv_ndim = 64
    /\ fe_x = <<2, 50, 128>>

----------------------------------------------------------------------------
(* Claims about Attention and Transformer, checked under SpecAttention.    *)

\* an Attention.forward call with a mask has run / has returned
AtMasked   == at_attn.masked
AtReturned == at_attn.masked /\ at_attn.err = "none"

AtB == at_in.shape[1]
AtN == at_in.shape[2]
AtH == tr.heads
AtQueries == (1..AtB) \X (1..AtH) \X (1..AtN)

\* batch element b's own mask with one true position prepended
OwnPadded(b) == <<TRUE>> \o at_in.mask.rows[b]

\* the padded mask row the call applies at batch element b and head h
AppliedPadded(b, h) == OwnPadded(IF AtB = 1 THEN 1 ELSE h)

\* the sum of the weights' numerators of query q over the keys in `keys`
WeightOver(q, keys) ==
    SeqSum([j \in 1..AtN |-> IF j \in keys THEN at_attn.w[q][j] ELSE 0])

\* C2 (as stated): in every call with a mask that returns, for every batch
\* element, head and query (queries the mask marks false included) the
\* weights are zero on the keys the batch element's mask marks false and
\* sum to 1 over the keys it marks true.
C2_ZeroOnMaskedKeys ==
    AtReturned =>
        \A q \in AtQueries :
            LET own == OwnPadded(q[1])
                on  == {j \in 1..AtN : own[j]}
            IN  /\ \A j \in (1..AtN) \ on : at_attn.w[q][j] = 0
                /\ WeightOver(q, on) = WeightOver(q, 1..AtN)
                /\ WeightOver(q, 1..AtN) > 0

\* C2 (amended): with m the padded mask row the call applies at (batch,
\* head): a query m marks true has weight zero on the keys m marks false and
\* its weights sum to 1 over the keys m marks true; a query m marks false
\* has every score suppressed and the uniform weight 1/n on every key.
C2_ZeroOnMaskedKeysOfAttendedQueries ==
    AtReturned =>
        \A q \in AtQueries :
            LET m  == AppliedPadded(q[1], q[2])
                on == {j \in 1..AtN : m[j]}
            IN  /\ WeightOver(q, 1..AtN) > 0
                /\ m[q[3]] =>
                      /\ \A j \in (1..AtN) \ on : at_attn.w[q][j] = 0
                      /\ WeightOver(q, on) = WeightOver(q, 1..AtN)
                /\ ~m[q[3]] =>
                      \A j \in 1..AtN :
                          /\ at_attn.w[q][j] > 0
                          /\ at_attn.w[q][j] * AtN = WeightOver(q, 1..AtN)

\* a returned call in which one query is marked false and another query,
\* marked true, has both a marked and an unmarked key
C2_Witness ==
    /\ AtReturned
    /\ \E q \in AtQueries : ~AppliedPadded(q[1], q[2])[q[3]]
    /\ \E q \in AtQueries :
          /\ AppliedPadded(q[1], q[2])[q[3]]
          /\ \E j, k \in 1..AtN :
                /\ ~AppliedPadded(q[1], q[2])[j] /\ at_attn.w[q][j] = 0
                /\ AppliedPadded(q[1], q[2])[k] /\ at_attn.w[q][k] > 0

\* the mask of the call has a row for each batch element, of the length the
\* assertion accepts, and every entry true
AtAllTrue ==
    /\ AtMasked
    /\ \A b \in 1..AtB :
          /\ Len(at_in.mask.rows[b]) = AtN - 1
          /\ Len(at_in.mask.rows[b]) >= 1
          /\ \A j \in 1..(AtN - 1) : at_in.mask.rows[b][j]

\* C3: a call with an all-true mask returns, suppresses no score and
\* computes what the same call computes with mask=None.
C3_AllTrueMaskIsNoMask ==
    AtAllTrue =>
        LET none == AttentionForward(tr.layers[1].attn, at_in.shape, NoMask,
                                     at_attn.dots)
        IN  /\ at_attn.err = "none"
            /\ at_attn.fill = {}
            /\ at_attn.w = none.w
            /\ at_attn.shape = none.shape

\* C4 (as stated): a mask of shape (batch, sequence) passes the assertion.
C4_MaskOfSequenceLengthPasses ==
    (AtMasked /\ \A b \in 1..AtB : Len(at_in.mask.rows[b]) = AtN)
        => at_attn.err # "AssertionError"

\* C4 (amended): the assertion fails exactly when the flattened mask does
\* not have sequence - 1 positions per batch element (so a mask of shape
\* (batch, sequence) always fails it), and a call that returns has an
\* output of the shape of its input.
C4_MaskOneShorterPasses ==
    AtMasked =>
        /\ at_attn.err = "AssertionError"
              <=> \E b \in 1..AtB : Len(at_in.mask.rows[b]) + 1 # AtN
        /\ at_attn.err = "none" => at_attn.shape = at_in.shape

C4_Witness ==
    /\ AtReturned
    /\ AtN >= 2
    /\ AtB >= 2
    /\ \A b \in 1..AtB : Len(at_in.mask.rows[b]) = AtN - 1
    /\ at_attn.shape = at_in.shape

C10_OwnMaskDecides ==
    AtReturned =>
        at_attn.fill =
            {p \in (1..AtB) \X (1..AtH) \X (1..AtN) \X (1..AtN) :
                ~(OwnPadded(p[1])[p[3]] /\ OwnPadded(p[1])[p[4]])}

----------------------------------------------------------------------------
(* Claims about GCN_DENSE, checked under SpecGCN.                          *)

GcNodes == Rows(gc_in.A)

\* C7: a forward call fails or returns a (nodes, hid_size) matrix, and it
\* fails whenever in_size differs from hid_size.
C7_FailsOrReturnsHidWide ==
    gc_pc = "done" =>
        /\ gc_err # "none"
              \/ (Rows(gc_h) = GcNodes /\ Cols(gc_h) = gc.hid_size)
        /\ gc.in_size # gc.hid_size => gc_err # "none"

\* layer 1 of a call with an all-zero adjacency matrix has been computed
GcZeroAdjacency ==
    /\ gc_pc \in {"layer2", "done"}
    /\ gc_pre # <<>>
    /\ \A i, j \in 1..GcNodes : gc_in.A[i][j] = 0

\* C8 (as stated): with an all-zero adjacency matrix the value after layer 1
\* before dropout is h, whatever the learned weights and biases.
C8_ZeroAdjacencyGivesH ==
    (GcZeroAdjacency /\ gc.in_size = gc.hid_size) => gc_pre = gc_in.h

\* C8 (amended): with an all-zero adjacency matrix and in_size = hid_size
\* the aggregation of layer 1 contributes zero and the convolution returns
\* its bias, so the value after layer 1 before dropout is ELU(bias_1) + h,
\* which is h when the bias is zero, as it is at construction.
C8_ZeroAdjacencyGivesEluBiasPlusH ==
    (GcZeroAdjacency /\ gc.in_size = gc.hid_size) =>
        /\ gc_pre = [i \in 1..GcNodes |-> [k \in 1..gc.hid_size |->
                        ELU(gc.conv_1.bias[k]) + gc_in.h[i][k]]]
        /\ (\A k \in 1..gc.hid_size : gc.conv_1.bias[k] = 0) => gc_pre = gc_in.h

\* after layer 1 of a call with an all-zero adjacency matrix on a module
\* with a negative learned bias, on features with a negative entry
C8_Witness ==
    /\ GcZeroAdjacency
    /\ gc.in_size = gc.hid_size
    /\ gc.hid_size >= 2
    /\ GcNodes >= 2
    /\ gc.conv_1.bias[1] < 0
    /\ \E i \in 1..GcNodes, k \in 1..gc.in_size : gc_in.h[i][k] < 0
    /\ gc_pre # gc_in.h

----------------------------------------------------------------------------
(* Claims about ConvNetSSM, checked under SpecSSM.                         *)

\* the canonical 4D form of a tensor: (1, 1, H, W) for (H, W), (1, C, H, W)
\* for (C, H, W), the tensor itself when it is 4D
Canonical4D(x) ==
    [x EXCEPT !.shape = IF Len(@) = 2 THEN <<1, 1, @[1], @[2]>>
                        ELSE IF Len(@) = 3 THEN <<1, @[1], @[2], @[3]>>
                        ELSE @]

Dilations(ops) ==
    SelectSeq(ops, LAMBDA op : op[1] = "conv")

====
